---- MODULE Spec2Model ----
(***************************************************************************)
(* Model of src/main.py: the /download handler that resolves a list of     *)
(* Google Docs / Sheets ids into one zip archive.                          *)
(*                                                                         *)
(* Text (str and bytes) is a sequence of strings.  Characters that the     *)
(* code inspects are one-character elements; the literal fragments of an   *)
(* f-string or of a pattern are kept as one element each, so that          *)
(* interpolation is concatenation and every character that came from an    *)
(* identifier or from a page stays visible.                                *)
(***************************************************************************)
EXTENDS Integers, Sequences, FiniteSets, TLC

VARIABLES
    doc_type,    \* form field doc_type
    doc_ids,     \* form field doc_ids[]
    i,           \* position of the for loop of download in doc_ids
    pc,          \* where download stands: "loop", "create_document", "get_sheet_ids",
                 \* "create_sheet", "done"
    dirname,     \* download: dirname of the spreadsheet being processed
    sheet_ids,   \* create_spreadsheet: sheet_ids
    k,           \* create_spreadsheet: position of its for loop in sheet_ids
    files,       \* create_spreadsheet: files
    zip_file,    \* entries written to the archive, in order; idx is the list position that wrote it
    requests,    \* every requests.get issued, in order: the url, the calling function, the list position
    log,         \* logging.exception of download: the list position and the id
    soup,        \* create_document: soup
    call,        \* function harness: the call under test
    ret          \* function harness: its result

main_vars == <<doc_type, doc_ids, i, pc, dirname, sheet_ids, k, files, zip_file,
               requests, log, soup>>

vars == <<main_vars, call, ret>>

(***************************************************************************)
(* Bounds                                                                  *)
(***************************************************************************)
MaxDocIds == 3      \* longest doc_ids list of a "docx" (or unknown type) request
MaxCsvIds == 2      \* longest doc_ids list of a "csv" request
MaxPageLen == 6     \* longest preview page text given to get_sheet_ids, in tokens
MaxTitleLen == 4    \* longest page title given to get_spreadsheet_title
MaxBodyLen == 3     \* longest export response body given to create_sheet, in tokens

SeqsUpTo(S, n) == UNION {[1..m -> S] : m \in 0..n}

Range(s) == {s[j] : j \in 1..Len(s)}

(***************************************************************************)
(* Values of the request and of the network                                *)
(***************************************************************************)
DocTypes == {"docx", "csv", "pdf"}

\* Identifiers come from the form unvalidated: any string.
DocIdSet == {<<"a">>, <<"a", "/", "b">>}

DocIdLists(t) == SeqsUpTo(DocIdSet, IF t = "csv" THEN MaxCsvIds ELSE MaxDocIds)

\* The outcome of requests.get: an exception, or a response.
Raised == [raised |-> TRUE, status_code |-> 0, content |-> <<>>]

Response(status, content) ==
    [raised |-> FALSE, status_code |-> status, content |-> content]

NetOutcomes(contents) ==
    {Raised, Response(404, <<>>)} \cup {Response(200, c) : c \in contents}

\* What fetch_url returns: the response, or None.
NoResponse == [present |-> FALSE, content |-> <<>>]

fetch_url(net) ==
    IF net.raised THEN NoResponse
    ELSE IF net.status_code = 200 THEN [present |-> TRUE, content |-> net.content]
    ELSE NoResponse

\* fetch_html: the content of an HTML response is given already parsed (the soup).
fetch_html(net) == fetch_url(net)

(***************************************************************************)
(* URLs: f-string interpolation of the id and of the sheet id              *)
(***************************************************************************)
HtmlviewUrl(spreadsheet_id) ==
    <<"https://docs.google.com/spreadsheets/u/0/d/">> \o spreadsheet_id \o <<"/htmlview">>

ExportUrl(spreadsheet_id, sheet_id) ==
    <<"https://docs.google.com/spreadsheets/d/">> \o spreadsheet_id
        \o <<"/export?format=csv&gid=">> \o sheet_id

GvizUrl(spreadsheet_id, sheet_id) ==
    <<"https://docs.google.com/spreadsheets/d/">> \o spreadsheet_id
        \o <<"/gviz/tq?tqx=out:csv&gid=">> \o sheet_id

MobilebasicUrl(doc_id) ==
    <<"https://docs.google.com/document/d/">> \o doc_id \o <<"/mobilebasic">>

(***************************************************************************)
(* get_sheet_ids                                                           *)
(***************************************************************************)
Digits == {"7", "3"}
PageTokens == {"gid=", "x"} \cup Digits

\* Last position of the run of digits that starts at p.
RECURSIVE DigitRunEnd(_, _)
DigitRunEnd(text, p) ==
    IF p < Len(text) /\ text[p + 1] \in Digits THEN DigitRunEnd(text, p + 1) ELSE p

\* re.findall(r"gid=(\d+)", text): the captured groups of the non-overlapping
\* matches, scanning from position p.
RECURSIVE re_findall_gid(_, _)
re_findall_gid(text, p) ==
    IF p > Len(text) THEN <<>>
    ELSE IF text[p] = "gid=" /\ p < Len(text) /\ text[p + 1] \in Digits
         THEN LET e == DigitRunEnd(text, p + 1)
              IN  <<SubSeq(text, p + 1, e)>> \o re_findall_gid(text, e + 1)
         ELSE re_findall_gid(text, p + 1)

\* Mutant of dict_fromkeys: list(xs), the keys are not collapsed.
dict_fromkeys_keeping_repeats(xs, seen) == xs

\* list(dict.fromkeys(xs)): each key once, in order of first insertion.
RECURSIVE dict_fromkeys(_, _)
dict_fromkeys(xs, seen) ==
    IF xs = <<>> THEN <<>>
    ELSE IF Head(xs) \in seen THEN dict_fromkeys(Tail(xs), seen)
         ELSE <<Head(xs)>> \o dict_fromkeys(Tail(xs), seen \cup {Head(xs)})

get_sheet_ids(spreadsheet_id, net) ==
    LET response == fetch_url(net)
    IN  IF ~response.present THEN <<(<<"0">>)>>
        ELSE LET found == re_findall_gid(response.content, 1)
             IN  IF found = <<>> THEN <<(<<"0">>)>>
                 ELSE dict_fromkeys(found, {})

(***************************************************************************)
(* Page titles                                                             *)
(***************************************************************************)
\* soup.title: no <title> element, a <title> whose .string is None, or one with text.
NoTitle == [tag |-> FALSE, has_string |-> FALSE, string |-> <<>>]
EmptyTitle == [tag |-> TRUE, has_string |-> FALSE, string |-> <<>>]
Title(s) == [tag |-> TRUE, has_string |-> TRUE, string |-> s]

SepChars == {".", "/", " "}

RECURSIVE SepRunEnd(_, _)
SepRunEnd(s, p) ==
    IF p < Len(s) /\ s[p + 1] \in SepChars THEN SepRunEnd(s, p + 1) ELSE p

\* re.sub(r"[./ ]+", "_", s), scanning from position p.
RECURSIVE re_sub_sep(_, _)
re_sub_sep(s, p) ==
    IF p > Len(s) THEN <<>>
    ELSE IF s[p] \in SepChars THEN <<"_">> \o re_sub_sep(s, SepRunEnd(s, p) + 1)
         ELSE <<s[p]>> \o re_sub_sep(s, p + 1)

\* A function's outcome: an exception, or its return value.
Raise == [raised |-> TRUE, value |-> <<>>]
Return(v) == [raised |-> FALSE, value |-> v]

get_spreadsheet_title(spreadsheet_id, net) ==
    LET sp == fetch_html(net)
    IN  IF ~sp.present \/ ~sp.content.title.tag
        THEN Return(<<"spreadsheet_">> \o spreadsheet_id)
        ELSE LET title == sp.content.title
             IN  IF ~title.has_string
                 THEN Raise       \* re.sub(..., None): TypeError
                 ELSE Return(re_sub_sep(title.string, 1))

(***************************************************************************)
(* create_sheet                                                            *)
(***************************************************************************)
DOCTYPE == <<"<!", "DOCTYPE">>      \* b"<!DOCTYPE"

\* Mutant of startswith: content == prefix.
startswith_whole(content, prefix) == content = prefix

startswith(content, prefix) ==
    Len(content) >= Len(prefix) /\ SubSeq(content, 1, Len(prefix)) = prefix

NoBuffer == [present |-> FALSE, content |-> <<>>]

\* The for loop over urls, from position u; nets[u] is what the u-th GET meets.
RECURSIVE create_sheet_loop(_, _, _, _)
create_sheet_loop(urls, nets, u, fetched) ==
    IF u > Len(urls) THEN [buffer |-> NoBuffer, fetched |-> fetched]
    ELSE LET response == fetch_url(nets[u])
             now == Append(fetched, urls[u])
         IN  IF ~response.present THEN create_sheet_loop(urls, nets, u + 1, now)
             ELSE IF response.content # <<>> /\ ~startswith(response.content, DOCTYPE)
                  THEN [buffer |-> [present |-> TRUE, content |-> response.content],
                        fetched |-> now]
                  ELSE create_sheet_loop(urls, nets, u + 1, now)

create_sheet(spreadsheet_id, sheet_id, nets) ==
    create_sheet_loop(<<ExportUrl(spreadsheet_id, sheet_id),
                        GvizUrl(spreadsheet_id, sheet_id)>>, nets, 1, <<>>)

(***************************************************************************)
(* create_spreadsheet                                                      *)
(***************************************************************************)
\* One turn of the for loop over sheet_ids: create_sheet, then skip or append.
sheet_turn(spreadsheet_id, sheet_id, nets, fs) ==
    LET r == create_sheet(spreadsheet_id, sheet_id, nets)
    IN  [files |-> IF ~r.buffer.present THEN fs
                   ELSE Append(fs, [filename |-> sheet_id \o <<".csv">>,
                                    buffer |-> r.buffer.content]),
         fetched |-> r.fetched]

\* Mutant of files_or_raise: the empty list is returned.
files_or_raise_never(fs) == Return(fs)

\* After the loop: raise Exception("No sheet could be fetched"), or return files.
files_or_raise(fs) == IF fs = <<>> THEN Raise ELSE Return(fs)

RECURSIVE create_spreadsheet_loop(_, _, _, _, _, _)
create_spreadsheet_loop(spreadsheet_id, ids, n, netss, fs, fetched) ==
    IF n > Len(ids) THEN [files |-> fs, fetched |-> fetched]
    ELSE LET t == sheet_turn(spreadsheet_id, ids[n], netss[n], fs)
         IN  create_spreadsheet_loop(spreadsheet_id, ids, n + 1, netss, t.files,
                                     fetched \o t.fetched)

\* The whole function: page_net is what the GET of get_sheet_ids meets,
\* netss[n] what the GETs of the n-th create_sheet meet.
create_spreadsheet(spreadsheet_id, page_net, netss) ==
    LET ids == get_sheet_ids(spreadsheet_id, page_net)
        l == create_spreadsheet_loop(spreadsheet_id, ids, 1, netss, <<>>, <<>>)
    IN  [result |-> files_or_raise(l.files),
         fetched |-> <<HtmlviewUrl(spreadsheet_id)>> \o l.fetched]

(***************************************************************************)
(* create_document                                                         *)
(***************************************************************************)
\* The parsed mobilebasic page: its title, whether it holds <div class="doc">
\* (outer), whether that holds a <div> (inner), and whether HtmlToDocx
\* converts the markup of inner without an exception.
Soup(title, outer, inner, converts) ==
    [title |-> title, outer |-> outer, inner |-> inner, converts |-> converts]

\* The parsed htmlview page, of which only the title is read.
TitlePage(title) == [title |-> title]

\* Mutant of create_document: a page without the content container gives an
\* empty document instead of an exception.
create_document_degrading(id, sp) ==
    IF ~sp.present THEN Raise
    ELSE Return([filename |-> <<"document_">> \o id \o <<".docx">>, buffer |-> <<"docx">>])

\* create_document after its fetch_html: sp is soup.
create_document(id, sp) ==
    LET title ==
            IF sp.present /\ sp.content.title.tag
               /\ sp.content.title.has_string /\ sp.content.title.string # <<>>
            THEN re_sub_sep(sp.content.title.string, 1)
            ELSE <<"document_">> \o id
    IN  IF ~sp.present THEN Raise              \* None.find: AttributeError
        ELSE IF ~sp.content.outer THEN Raise   \* outer is None
        ELSE IF ~sp.content.inner THEN Raise   \* inner is None
        ELSE IF ~sp.content.converts THEN Raise
        ELSE Return([filename |-> title \o <<".docx">>, buffer |-> <<"docx">>])

(***************************************************************************)
(* What the network answers during an archive build                        *)
(***************************************************************************)
SomeTitles == {NoTitle, EmptyTitle, Title(<<"a", " ", "b">>), Title(<<"a", "_", "b">>)}

DocumentNets ==
    NetOutcomes({Soup(t, o, n, c) : t \in SomeTitles, o \in BOOLEAN,
                                    n \in BOOLEAN, c \in BOOLEAN})

TitleNets == NetOutcomes({TitlePage(t) : t \in SomeTitles})

SheetPageNets ==
    NetOutcomes({<<"x">>, <<"gid=", "7", "x", "gid=", "3", "gid=", "7">>})

ExportNets == NetOutcomes({<<>>, DOCTYPE \o <<"x">>, <<"x">>})

(***************************************************************************)
(* download                                                                *)
(***************************************************************************)
doc_id == doc_ids[i]

Fetched(by, urls) == [j \in 1..Len(urls) |-> [url |-> urls[j], by |-> by, idx |-> i]]

\* zip_file.writestr(path, bytes)
writestr(zf, path, bytes) == Append(zf, [path |-> path, bytes |-> bytes, idx |-> i])

\* Mutant of Failed: the try encloses the for loop, a failure ends the loop.
Failed_ending_loop ==
    /\ log' = Append(log, [idx |-> i, doc_id |-> doc_id])
    /\ i' = Len(doc_ids) + 1
    /\ pc' = "loop"

\* except Exception: logging.exception(...), then the next id
Failed ==
    /\ log' = Append(log, [idx |-> i, doc_id |-> doc_id])
    /\ i' = i + 1
    /\ pc' = "loop"

InLoop == pc = "loop" /\ i <= Len(doc_ids)

\* doc_type == "docx": create_document begins, soup = fetch_html(...)
FetchDocument ==
    /\ InLoop
    /\ doc_type = "docx"
    /\ \E net \in DocumentNets : soup' = fetch_html(net)
    /\ requests' = requests \o Fetched("create_document", <<MobilebasicUrl(doc_id)>>)
    /\ pc' = "create_document"
    /\ UNCHANGED <<doc_type, doc_ids, i, dirname, sheet_ids, k, files, zip_file, log,
                   call, ret>>

\* the rest of create_document, then zip_file.writestr(filename, ...)
CreateDocument ==
    /\ pc = "create_document"
    /\ LET r == create_document(doc_id, soup)
       IN  IF r.raised
           THEN Failed /\ UNCHANGED zip_file
           ELSE /\ zip_file' = writestr(zip_file, r.value.filename, r.value.buffer)
                /\ i' = i + 1
                /\ pc' = "loop"
                /\ UNCHANGED log
    /\ soup' = NoResponse          \* create_document is left
    /\ UNCHANGED <<doc_type, doc_ids, dirname, sheet_ids, k, files, requests, call, ret>>

\* Mutant of DownloadInvalidType: the ValueError is raised outside the try and
\* ends the handler without a response.
DownloadInvalidType_uncaught ==
    /\ pc = "loop" /\ i <= Len(doc_ids)
    /\ doc_type # "docx"
    /\ doc_type # "csv"
    /\ pc' = "error"
    /\ UNCHANGED <<doc_type, doc_ids, i, dirname, sheet_ids, k, files, zip_file, requests,
                   log, soup, call, ret>>

\* else: raise ValueError("Invalid document type")
DownloadInvalidType ==
    /\ InLoop
    /\ doc_type # "docx"
    /\ doc_type # "csv"
    /\ Failed
    /\ UNCHANGED <<doc_type, doc_ids, dirname, sheet_ids, k, files, zip_file, requests,
                   soup, call, ret>>

\* doc_type == "csv": dirname = get_spreadsheet_title(doc_id)
GetSpreadsheetTitle ==
    /\ InLoop
    /\ doc_type = "csv"
    /\ \E net \in TitleNets :
         LET r == get_spreadsheet_title(doc_id, net)
         IN  IF r.raised
             THEN Failed /\ UNCHANGED dirname
             ELSE /\ dirname' = r.value
                  /\ pc' = "get_sheet_ids"
                  /\ UNCHANGED <<i, log>>
    /\ requests' = requests \o Fetched("get_spreadsheet_title", <<HtmlviewUrl(doc_id)>>)
    /\ UNCHANGED <<doc_type, doc_ids, sheet_ids, k, files, zip_file, soup, call, ret>>

\* create_spreadsheet: sheet_ids = get_sheet_ids(spreadsheet_id); files = []
GetSheetIds ==
    /\ pc = "get_sheet_ids"
    /\ \E net \in SheetPageNets : sheet_ids' = get_sheet_ids(doc_id, net)
    /\ requests' = requests \o Fetched("get_sheet_ids", <<HtmlviewUrl(doc_id)>>)
    /\ files' = <<>>
    /\ k' = 1
    /\ pc' = "create_sheet"
    /\ UNCHANGED <<doc_type, doc_ids, i, dirname, zip_file, log, soup, call, ret>>

\* create_spreadsheet: one turn of the for loop over sheet_ids
CreateSheet ==
    /\ pc = "create_sheet"
    /\ k <= Len(sheet_ids)
    /\ \E n1 \in ExportNets, n2 \in ExportNets :
         LET t == sheet_turn(doc_id, sheet_ids[k], <<n1, n2>>, files)
         IN  /\ requests' = requests \o Fetched("create_sheet", t.fetched)
             /\ files' = t.files
    /\ k' = k + 1
    /\ UNCHANGED <<doc_type, doc_ids, i, pc, dirname, sheet_ids, zip_file, log, soup,
                   call, ret>>

\* Mutant of writestr_all: the files are written last first.
RECURSIVE writestr_all_reversed(_, _, _)
writestr_all_reversed(zf, dir, fs) ==
    IF fs = <<>> THEN zf
    ELSE writestr_all_reversed(
             Append(zf, [path |-> dir \o <<"/">> \o fs[Len(fs)].filename,
                         bytes |-> fs[Len(fs)].buffer, idx |-> i]),
             dir, SubSeq(fs, 1, Len(fs) - 1))

\* for filename, buffer in ...: zip_file.writestr(f"{dirname}/{filename}", ...)
RECURSIVE writestr_all(_, _, _)
writestr_all(zf, dir, fs) ==
    IF fs = <<>> THEN zf
    ELSE writestr_all(writestr(zf, dir \o <<"/">> \o Head(fs).filename, Head(fs).buffer),
                      dir, Tail(fs))

\* create_spreadsheet: after the loop, raise or return files; download then
\* writes every file under dirname
FinishSpreadsheet ==
    /\ pc = "create_sheet"
    /\ k > Len(sheet_ids)
    /\ LET r == files_or_raise(files)
       IN  IF r.raised
           THEN Failed /\ UNCHANGED zip_file
           ELSE /\ zip_file' = writestr_all(zip_file, dirname, r.value)
                /\ i' = i + 1
                /\ pc' = "loop"
                /\ UNCHANGED log
    /\ UNCHANGED <<doc_type, doc_ids, dirname, sheet_ids, k, files, requests, soup,
                   call, ret>>

\* The loop is over: the StreamingResponse with the archive is returned.
Respond ==
    /\ pc = "loop"
    /\ i > Len(doc_ids)
    /\ pc' = "done"
    /\ UNCHANGED <<doc_type, doc_ids, i, dirname, sheet_ids, k, files, zip_file,
                   requests, log, soup, call, ret>>

NoCall == [fn |-> "none"]
Pending == [done |-> FALSE]

Init ==
    /\ doc_type \in DocTypes
    /\ doc_ids \in DocIdLists(doc_type)
    /\ i = 1
    /\ pc = "loop"
    /\ dirname = <<>>
    /\ sheet_ids = <<>>
    /\ k = 1
    /\ files = <<>>
    /\ zip_file = <<>>
    /\ requests = <<>>
    /\ log = <<>>
    /\ soup = NoResponse
    /\ call = NoCall
    /\ ret = Pending

Next ==
    \/ FetchDocument
    \/ CreateDocument
    \/ DownloadInvalidType
    \/ GetSpreadsheetTitle
    \/ GetSheetIds
    \/ CreateSheet
    \/ FinishSpreadsheet
    \/ Respond

Spec == Init /\ [][Next]_vars

(***************************************************************************)
(* The functions on their own: one call, with what its GETs meet           *)
(***************************************************************************)
TitleChars == {"a", "_"} \cup SepChars
BodyTokens == {"<!", "DOCTYPE", "x"}

Call(fn, id, sheet_id, nets) ==
    [fn |-> fn, id |-> id, sheet_id |-> sheet_id, nets |-> nets]

GetSheetIdsCalls ==
    {Call("get_sheet_ids", <<"a">>, <<>>, <<n>>) :
        n \in NetOutcomes(SeqsUpTo(PageTokens, MaxPageLen))}

TitlePages ==
    {TitlePage(t) : t \in {NoTitle, EmptyTitle}
                            \cup {Title(s) : s \in SeqsUpTo(TitleChars, MaxTitleLen) \ {<<>>}}}

GetSpreadsheetTitleCalls ==
    {Call("get_spreadsheet_title", id, <<>>, <<n>>) :
        id \in DocIdSet, n \in NetOutcomes(TitlePages)}

ExportBodyNets == NetOutcomes(SeqsUpTo(BodyTokens, MaxBodyLen))

CreateSheetCalls ==
    {Call("create_sheet", id, g, <<n1, n2>>) :
        id \in DocIdSet, g \in {<<"0">>, <<"7", "3">>},
        n1 \in ExportBodyNets, n2 \in ExportBodyNets}

ThreeTabs == Response(200, <<"gid=", "7", "gid=", "3", "gid=", "7", "3">>)

CreateSpreadsheetCalls ==
    {Call("create_spreadsheet", <<"a">>, <<>>, <<p, netss>>) :
        p \in SheetPageNets \cup {ThreeTabs},
        netss \in [1..3 -> ExportNets \X ExportNets]}

InitFn ==
    /\ doc_type = "docx"
    /\ doc_ids = <<>>
    /\ i = 1
    /\ pc = "done"
    /\ dirname = <<>>
    /\ sheet_ids = <<>>
    /\ k = 1
    /\ files = <<>>
    /\ zip_file = <<>>
    /\ requests = <<>>
    /\ log = <<>>
    /\ soup = NoResponse
    /\ \/ call \in GetSheetIdsCalls
       \/ call \in GetSpreadsheetTitleCalls
       \/ call \in CreateSheetCalls
       \/ call \in CreateSpreadsheetCalls
    /\ ret = Pending

Returned(v) ==
    /\ ~ret.done
    /\ ret' = [done |-> TRUE, value |-> v]
    /\ UNCHANGED <<main_vars, call>>

RunGetSheetIds ==
    /\ call.fn = "get_sheet_ids"
    /\ Returned(get_sheet_ids(call.id, call.nets[1]))

RunGetSpreadsheetTitle ==
    /\ call.fn = "get_spreadsheet_title"
    /\ Returned(get_spreadsheet_title(call.id, call.nets[1]))

RunCreateSheet ==
    /\ call.fn = "create_sheet"
    /\ Returned(create_sheet(call.id, call.sheet_id, call.nets))

RunCreateSpreadsheet ==
    /\ call.fn = "create_spreadsheet"
    /\ Returned(create_spreadsheet(call.id, call.nets[1], call.nets[2]))

NextFn ==
    \/ RunGetSheetIds
    \/ RunGetSpreadsheetTitle
    \/ RunCreateSheet
    \/ RunCreateSpreadsheet

SpecFn == InitFn /\ [][NextFn]_vars

(***************************************************************************)
(* Properties of the functions (under SpecFn)                              *)
(***************************************************************************)
NoDuplicates(s) == \A a, b \in 1..Len(s) : a # b => s[a] # s[b]

\* The positions of a page text where "gid=" is followed by a digit, and the
\* run of digits that follows.
GidPositions(text) ==
    {p \in 1..Len(text) : text[p] = "gid=" /\ p < Len(text) /\ text[p + 1] \in Digits}

GidAt(text, p) == SubSeq(text, p + 1, DigitRunEnd(text, p + 1))

FirstGidPosition(text, g) ==
    CHOOSE p \in GidPositions(text) :
        /\ GidAt(text, p) = g
        /\ \A q \in GidPositions(text) : GidAt(text, q) = g => p <= q

Reachable(net) == ~net.raised /\ net.status_code = 200

\* C7: get_sheet_ids returns ["0"] when the preview page is unreachable or
\* holds no gid=<digits>; otherwise the gids of the page, each once, in order
\* of first appearance (gid=7 .. gid=3 .. gid=7 gives ["7", "3"]); its result
\* is never empty and never holds a duplicate.
C7_ListTabs ==
    (call.fn = "get_sheet_ids" /\ ret.done) =>
        LET net == call.nets[1]
            r == ret.value
        IN  /\ r # <<>>
            /\ NoDuplicates(r)
            /\ IF ~Reachable(net) \/ GidPositions(net.content) = {}
               THEN r = <<(<<"0">>)>>
               ELSE /\ Range(r) = {GidAt(net.content, p) : p \in GidPositions(net.content)}
                    /\ \A a, b \in 1..Len(r) :
                         a < b => FirstGidPosition(net.content, r[a])
                                    < FirstGidPosition(net.content, r[b])
            /\ (Reachable(net) /\ net.content = <<"gid=", "7", "gid=", "3", "gid=", "7">>)
                 => r = <<(<<"7">>), (<<"3">>)>>

\* A page with gid=7, gid=3, gid=7 was listed as ["7", "3"].
C7_Witness ==
    /\ call.fn = "get_sheet_ids"
    /\ ret.done
    /\ Reachable(call.nets[1])
    /\ call.nets[1].content = <<"gid=", "7", "gid=", "3", "gid=", "7">>
    /\ ret.value = <<(<<"7">>), (<<"3">>)>>

\* A response that create_sheet is to accept: status 200, a body that is not
\* empty and does not begin with <!DOCTYPE.
BeginsWithDoctype(content) ==
    Len(content) >= 2 /\ content[1] = "<!" /\ content[2] = "DOCTYPE"

Accepted(net) == Reachable(net) /\ Len(net.content) > 0 /\ ~BeginsWithDoctype(net.content)

\* C5: create_sheet fetches the direct export URL first and the gviz URL
\* second, returns the body of the first accepted response without fetching
\* further, and returns None exactly when neither response is accepted; a
\* body that begins with <!DOCTYPE is never returned.
C5_ExportTab ==
    (call.fn = "create_sheet" /\ ret.done) =>
        LET n1 == call.nets[1]
            n2 == call.nets[2]
            u1 == ExportUrl(call.id, call.sheet_id)
            u2 == GvizUrl(call.id, call.sheet_id)
            r == ret.value
        IN  /\ IF Accepted(n1)
               THEN /\ r.fetched = <<u1>>
                    /\ r.buffer = [present |-> TRUE, content |-> n1.content]
               ELSE /\ r.fetched = <<u1, u2>>
                    /\ IF Accepted(n2)
                       THEN r.buffer = [present |-> TRUE, content |-> n2.content]
                       ELSE ~r.buffer.present
            /\ r.buffer.present => ~BeginsWithDoctype(r.buffer.content)

\* The export URL answered 200 with an HTML page, the gviz URL with CSV, and
\* the CSV was returned.
C5_Witness ==
    /\ call.fn = "create_sheet"
    /\ ret.done
    /\ call.nets[1] = Response(200, <<"<!", "DOCTYPE", "x">>)
    /\ call.nets[2] = Response(200, <<"x", "x">>)
    /\ ret.value.buffer = [present |-> TRUE, content |-> <<"x", "x">>]
    /\ Len(ret.value.fetched) = 2

\* The title with every maximal run of '.', ' ', '/' replaced by one '_':
\* the characters kept are those outside the class and the first of each run.
CollapseRuns(s) ==
    LET kept == SelectSeq([j \in 1..Len(s) |-> j],
                          LAMBDA j : s[j] \notin SepChars \/ j = 1 \/ s[j - 1] \notin SepChars)
    IN  [m \in 1..Len(kept) |-> IF s[kept[m]] \in SepChars THEN "_" ELSE s[kept[m]]]

HasTitleText(net) ==
    Reachable(net) /\ net.content.title.tag /\ net.content.title.has_string

\* C8: get_spreadsheet_title returns a string whatever the fetch meets:
\* "spreadsheet_<id>" when the fetch fails, the page has no <title> or the
\* <title> has no text, and otherwise the title with its runs collapsed.
C8_TitleAlwaysReturned ==
    (call.fn = "get_spreadsheet_title" /\ ret.done) =>
        LET net == call.nets[1]
            r == ret.value
        IN  /\ ~r.raised
            /\ r.value = IF HasTitleText(net)
                         THEN CollapseRuns(net.content.title.string)
                         ELSE <<"spreadsheet_">> \o call.id

\* What does hold of get_spreadsheet_title: the same, except that a <title>
\* without text raises.
C8_TitleExceptEmpty ==
    (call.fn = "get_spreadsheet_title" /\ ret.done) =>
        LET net == call.nets[1]
            r == ret.value
        IN  IF Reachable(net) /\ net.content.title.tag /\ ~net.content.title.has_string
            THEN r.raised
            ELSE /\ ~r.raised
                 /\ r.value = IF HasTitleText(net)
                              THEN CollapseRuns(net.content.title.string)
                              ELSE <<"spreadsheet_">> \o call.id

\* C6: create_spreadsheet calls create_sheet once for every discovered tab, in
\* discovery order, also after a tab failed; it returns one ("<tab>.csv",
\* bytes) pair per tab whose export succeeded, in discovery order; and it
\* raises if and only if no tab succeeded.
C6_ResolveSpreadsheet ==
    (call.fn = "create_spreadsheet" /\ ret.done) =>
        LET id == call.id
            netss == call.nets[2]
            tabs == get_sheet_ids(id, call.nets[1])
            exported(j) == create_sheet(id, tabs[j], netss[j]).buffer
            ok == {j \in 1..Len(tabs) : exported(j).present}
            nth(m) == CHOOSE j \in ok : Cardinality({j2 \in ok : j2 <= j}) = m
            r == ret.value
            export_gets == SelectSeq(r.fetched,
                                     LAMBDA u : "/export?format=csv&gid=" \in Range(u))
        IN  /\ export_gets = [j \in 1..Len(tabs) |-> ExportUrl(id, tabs[j])]
            /\ r.result.raised <=> ok = {}
            /\ ~r.result.raised =>
                 r.result.value =
                     [m \in 1..Cardinality(ok) |->
                         [filename |-> tabs[nth(m)] \o <<".csv">>,
                          buffer |-> exported(nth(m)).content]]

\* Of three tabs the second could not be exported; the first and third were returned.
C6_Witness ==
    /\ call.fn = "create_spreadsheet"
    /\ ret.done
    /\ call.nets[1] = ThreeTabs
    /\ ~ret.value.result.raised
    /\ Len(ret.value.result.value) = 2
    /\ ret.value.result.value[1].filename = <<"7", ".csv">>
    /\ ret.value.result.value[2].filename = <<"7", "3", ".csv">>

(***************************************************************************)
(* Properties of the archive build (under Spec)                            *)
(***************************************************************************)
LogIdx == {log[j].idx : j \in 1..Len(log)}
ZipIdx == {zip_file[j].idx : j \in 1..Len(zip_file)}

\* C1: a failure while processing one id never aborts the batch: every id is
\* processed, in request order, each id either is logged as failed or has its
\* entries in the archive, never both, and the build ends only after the last
\* id; three document ids of which one fails give exactly two entries.
C1_FailureIsolated ==
    /\ i \in 1..(Len(doc_ids) + 1)
    /\ LogIdx \cup ZipIdx = 1..(i - 1)
    /\ LogIdx \cap ZipIdx = {}
    /\ \A a, b \in 1..Len(log) : a < b => log[a].idx < log[b].idx
    /\ \A a, b \in 1..Len(zip_file) : a < b => zip_file[a].idx <= zip_file[b].idx
    /\ \A a \in 1..Len(log) : log[a].doc_id = doc_ids[log[a].idx]
    /\ pc = "done" => i = Len(doc_ids) + 1
    /\ (pc = "done" /\ doc_type = "docx" /\ Len(doc_ids) = 3 /\ Len(log) = 1)
         => Len(zip_file) = 2

\* Of three document ids the second failed, and the archive holds the two
\* entries of the first and the third, of distinct titles.
C1_Witness ==
    /\ pc = "done"
    /\ doc_type = "docx"
    /\ Len(doc_ids) = 3
    /\ LogIdx = {2}
    /\ Len(zip_file) = 2
    /\ zip_file[1].idx = 1
    /\ zip_file[2].idx = 3
    /\ zip_file[1].path # zip_file[2].path

\* C2: the build always ends with the response, never with an error: an
\* empty list gives an empty archive, so does a list of which every id
\* failed, and with a doc_type other than "docx" and "csv" every id fails,
\* nothing is fetched and no entry is ever written.
C2_AlwaysAZip ==
    /\ pc # "done" => ENABLED Next
    /\ pc = "done" =>
         /\ doc_ids = <<>> => zip_file = <<>>
         /\ Len(log) = Len(doc_ids) => zip_file = <<>>
    /\ doc_type \notin {"docx", "csv"} =>
         /\ zip_file = <<>>
         /\ requests = <<>>
         /\ Len(log) = i - 1

\* A request of an unknown type with two ids ended with both logged and an
\* empty archive.
C2_Witness ==
    /\ pc = "done"
    /\ doc_type = "pdf"
    /\ Len(doc_ids) = 2
    /\ Len(log) = 2
    /\ zip_file = <<>>

\* C3 as stated: after any build no two entries of the archive share a path.
C3_NoSharedPath ==
    pc = "done" =>
        \A a, b \in 1..Len(zip_file) : a # b => zip_file[a].path # zip_file[b].path

\* C3 as amended: no two entries written for the same position of the id
\* list share a path.
C3_NoSharedPathWithinId ==
    \A a, b \in 1..Len(zip_file) :
        (a # b /\ zip_file[a].idx = zip_file[b].idx) => zip_file[a].path # zip_file[b].path

\* A spreadsheet id was given twice; each time two tabs were written, and
\* the entries of the second time repeat the paths of the first.
C3_Witness ==
    /\ pc = "done"
    /\ doc_type = "csv"
    /\ Len(zip_file) = 4
    /\ zip_file[1].idx = zip_file[2].idx
    /\ zip_file[3].idx = zip_file[4].idx
    /\ zip_file[1].path = zip_file[3].path
    /\ zip_file[2].path = zip_file[4].path

\* Characters that must not reach a URL from an identifier.
UnsafeChars == {"/", "?", "#", "&"}

\* C4: no GET is issued for a URL built from an id that holds an unsafe
\* character.  (The fixed parts of a URL are whole elements, so a
\* one-character element comes from the id or the sheet id.)
C4_OnlySafeIdsFetched ==
    \A j \in 1..Len(requests) :
        /\ Range(requests[j].url) \cap UnsafeChars = {}
        /\ Range(doc_ids[requests[j].idx]) \cap UnsafeChars = {}

\* What the rest of create_document does with soup in a "docx" build.
C9_Step ==
    pc = "create_document" =>
        LET absent == ~soup.present \/ ~soup.content.outer \/ ~soup.content.inner
            title == IF soup.present /\ soup.content.title.tag
                        /\ soup.content.title.has_string
                     THEN CollapseRuns(soup.content.title.string)
                     ELSE <<"document_">> \o doc_id
            n == Len(zip_file)
        IN  IF absent \/ ~soup.content.converts
            THEN /\ zip_file' = zip_file
                 /\ log' = Append(log, [idx |-> i, doc_id |-> doc_id])
            ELSE /\ log' = log
                 /\ Len(zip_file') = n + 1
                 /\ SubSeq(zip_file', 1, n) = zip_file
                 /\ zip_file'[n + 1].path = title \o <<".docx">>
                 /\ zip_file'[n + 1].idx = i

RequestsOf(j) == SelectSeq(requests, LAMBDA r : r.idx = j)
EntriesOf(j) == SelectSeq(zip_file, LAMBDA e : e.idx = j)

LastSlash(path) == CHOOSE p \in 1..Len(path) :
    path[p] = "/" /\ \A q \in (p + 1)..Len(path) : path[q] # "/"

DirOf(path) == SubSeq(path, 1, LastSlash(path) - 1)
TabOf(path) == SubSeq(path, LastSlash(path) + 1, Len(path) - 1)

IsTabPath(path) ==
    /\ "/" \in Range(path)
    /\ path[Len(path)] = ".csv"
    /\ TabOf(path) # <<>>
    /\ Range(TabOf(path)) \subseteq Digits \cup {"0"}

ExportPosition(j, tab) ==
    CHOOSE p \in 1..Len(RequestsOf(j)) :
        RequestsOf(j)[p].url = ExportUrl(doc_ids[j], tab)

\* C10: in a "csv" build the directory name of an id is computed once, before
\* any tab of the id is exported; every entry of the id is
\* "<dirname>/<tab>.csv" with that one dirname; the entries of one id are in
\* the order in which the tabs were exported, those of different ids in
\* request order.
C10_CsvLayout ==
    doc_type = "csv" =>
        /\ \A j \in 1..Len(doc_ids) :
             LET rs == RequestsOf(j)
                 es == EntriesOf(j)
             IN  /\ rs # <<>> =>
                      /\ rs[1].by = "get_spreadsheet_title"
                      /\ \A p \in 2..Len(rs) : rs[p].by # "get_spreadsheet_title"
                 /\ \A a \in 1..Len(es) :
                      /\ IsTabPath(es[a].path)
                      /\ DirOf(es[a].path) = DirOf(es[1].path)
                      /\ (j = i - 1 /\ pc \in {"loop", "done"})
                           => DirOf(es[a].path) = dirname
                 /\ \A a, b \in 1..Len(es) :
                      a < b => ExportPosition(j, TabOf(es[a].path))
                                 < ExportPosition(j, TabOf(es[b].path))
        /\ \A a, b \in 1..Len(zip_file) : a < b => zip_file[a].idx <= zip_file[b].idx
        /\ (pc = "done" /\ Len(doc_ids) = 1 /\ Len(zip_file) = 2) =>
             /\ DirOf(zip_file[1].path) = DirOf(zip_file[2].path)
             /\ TabOf(zip_file[1].path) # TabOf(zip_file[2].path)

\* Two spreadsheets, the first with the tabs 7 and 3 under its page title,
\* the second with one tab under its fallback name.
C10_Witness ==
    /\ pc = "done"
    /\ doc_type = "csv"
    /\ Len(doc_ids) = 2
    /\ Len(zip_file) = 3
    /\ zip_file[1].path = <<"a", "_", "b", "/", "7", ".csv">>
    /\ zip_file[2].path = <<"a", "_", "b", "/", "3", ".csv">>
    /\ zip_file[3].idx = 2
    /\ DirOf(zip_file[3].path) = <<"spreadsheet_">> \o doc_ids[2]

====
